---------------------------- MODULE Spec2Model ----------------------------
(***************************************************************************)
(* Model of the travel-planner orchestration engine                        *)
(* (src/crew/crew_runner.py, src/crew/agents.py): cache key derivation,    *)
(* the file cache with its TTL, the bounded task runner, the trend stage,  *)
(* the four-way fan-out under the outer deadline, and the cache write.     *)
(*                                                                         *)
(* Strings are sequences of one-character strings, so that strip() and     *)
(* lower() are computed and not assumed.  Time is in whole seconds.        *)
(***************************************************************************)
EXTENDS Integers, Sequences, FiniteSets, TLC

VARIABLES
    cacheFile,    \* .travel_cache.json: [valid |-> BOOLEAN, map |-> key -> entry]
    now,          \* time.time(), in seconds
    calls,        \* number of run_travel_crew calls started so far
    pc,           \* position of the orchestrating thread
    req,          \* user_input of the current call
    destination, dates, budget, mood,   \* locals of run_travel_crew (lines 101-104)
    key,          \* local key (line 109)
    budget_info,  \* local budget_info (line 116)
    trends,       \* local trends (lines 119-124)
    fields,       \* locals itinerary, hotels, foods, gallery (lines 127-130), by task name
    result,       \* local result (lines 163-173)
    ret,          \* what the current call gave its caller
    path,         \* "none", "hit" (line 113) or "miss" (line 115 onwards)
    started,      \* how often each sub-task was started in the current call
    trendStart,   \* time at which _run_with_timeout submitted the trend task
    rwt,          \* the _run_with_timeout call: its outcome and the time it returned
    fut,          \* state of the four fan-out futures
    fanStart,     \* time at which the fan-out stage submitted its tasks
    deadlineAt,   \* time at which as_completed raised TimeoutError, or -1
    produced,     \* what each fan-out task's own function produced, once reported
    itinArg,      \* the trends value the itinerary closure was submitted with
    putCache,     \* local cache of _set_cached between its load and its save
    io,           \* cache I/O faults met by the current call
    getAt,        \* time of the current call's cache lookup
    prev,         \* summary of the previous call
    failures,     \* sub-task failures so far: errors, timeouts, tasks cut off
    faults,       \* cache I/O faults so far
    kin,          \* a pair of requests handed to the key derivation
    kout,         \* the keys derived for the pair
    th,           \* the threads that call _get_cached and _set_cached themselves
    lock,         \* holder of CACHE_LOCK, 0 when it is free
    oplog,        \* the cache operations those threads have completed, in order
    bargs,        \* the arguments of a call of BudgetAgent.run
    binfo         \* what that call gave

vars == << cacheFile, now, calls, pc, req, destination, dates, budget, mood, key,
           budget_info, trends, fields, result, ret, path, started, trendStart,
           rwt, fut, fanStart, deadlineAt, produced, itinArg, putCache, io,
           getAt, prev, failures, faults, kin, kout, th, lock, oplog, bargs, binfo >>

StoreVars == << th, lock, oplog >>

BudgetVars == << bargs, binfo >>

-----------------------------------------------------------------------------
(* Bounds of the model *)

\* number of run_travel_crew calls made one after the other
MaxCalls == 2

\* length of the strings handed to the key derivation
MaxKeyLen == 2

\* length of the dates text handed to BudgetAgent.run
MaxDatesLen == 6

\* cache operations the threads make between them
MaxOps == 2

\* sub-task failures in a run of several calls
MaxFailures == 1

\* cache I/O faults in a run of several calls
MaxFaults == 1

(* Program constants *)

CACHE_TTL == 3600
TrendTimeout == 20
OuterDeadline == 40
PerTaskTimeout == 8
DefaultDays == 5

-----------------------------------------------------------------------------
(* Strings *)

Spaces == {" ", "\t"}

\* str.lower() on one character
LowerChar(c) ==
    CASE c = "G" -> "g"
      [] c = "O" -> "o"
      [] c = "A" -> "a"
      [] c = "F" -> "f"
      [] c = "U" -> "u"
      [] c = "N" -> "n"
      [] OTHER -> c

\* str.lower()
Lower(s) == [i \in 1..Len(s) |-> LowerChar(s[i])]

RECURSIVE LStrip(_)
LStrip(s) == IF s # <<>> /\ Head(s) \in Spaces THEN LStrip(Tail(s)) ELSE s

RECURSIVE RStrip(_)
RStrip(s) ==
    IF s # <<>> /\ s[Len(s)] \in Spaces THEN RStrip(SubSeq(s, 1, Len(s) - 1)) ELSE s

\* str.strip()
Strip(s) == RStrip(LStrip(s))

\* (x or default): None and "" are both falsy; both are the empty sequence here
OrElse(x, default) == IF x = <<>> THEN default ELSE x

Relax == <<"r", "e", "l", "a", "x">>

\* variant of CacheKey: the mood is stripped but not lower-cased
CacheKeyMoodAsIs(d, dt, b, m) ==
    Lower(Strip(d)) \o <<"|">> \o Strip(dt) \o <<"|">> \o b \o <<"|">> \o Strip(m)

\* _cache_key(destination, dates, budget, mood)
CacheKey(d, dt, b, m) ==
    Lower(Strip(d)) \o <<"|">> \o Strip(dt) \o <<"|">> \o b \o <<"|">> \o Lower(Strip(m))

\* lines 101-104 of run_travel_crew: the four locals from user_input
Locals(r) ==
    [ destination |-> Strip(OrElse(r.destination, <<>>)),
      dates       |-> Strip(OrElse(r.dates, <<>>)),
      budget      |-> Strip(OrElse(r.budget, <<>>)),
      mood        |-> Strip(OrElse(r.mood, Relax)) ]

\* variant of Invalid: only the destination is required
InvalidDestination(l) == l.destination = <<>>

\* line 106: not destination or not budget
Invalid(l) == l.destination = <<>> \/ l.budget = <<>>

\* the key run_travel_crew looks up (line 109)
RequestKey(r) ==
    LET l == Locals(r) IN CacheKey(l.destination, l.dates, l.budget, l.mood)

-----------------------------------------------------------------------------
(* BudgetAgent.run (agents.py 56-81) *)

Digits == {"0", "1", "2", "3", "4", "5", "6", "7", "8", "9"}

DigitValue(c) ==
    CASE c = "0" -> 0 [] c = "1" -> 1 [] c = "2" -> 2 [] c = "3" -> 3 [] c = "4" -> 4
      [] c = "5" -> 5 [] c = "6" -> 6 [] c = "7" -> 7 [] c = "8" -> 8 [] c = "9" -> 9
      [] OTHER -> 0

\* variant of IsNumber: any non-empty text is taken for a number
IsNumberLenient(b) == b # <<>>

\* float(budget_str) succeeds (line 58); over the characters of the model the
\* float literals are the non-empty digit strings
IsNumber(b) == b # <<>> /\ \A i \in 1..Len(b) : b[i] \in Digits

RECURSIVE NumberValue(_)
NumberValue(b) ==
    IF b = <<>> THEN 0
    ELSE 10 * NumberValue(SubSeq(b, 1, Len(b) - 1)) + DigitValue(b[Len(b)])

\* an ISO date is one token of a dates string; its ordinal is its day number
IsoDates == {"2025-12-10", "2025-12-15"}

DateOrdinal(tok) ==
    CASE tok = "2025-12-10" -> 10
      [] tok = "2025-12-15" -> 15
      [] OTHER -> 0

\* index of the first "to" in s, or 0
FirstTo(s) ==
    LET hits == {i \in 1..(Len(s) - 1) : s[i] = "t" /\ s[i + 1] = "o"}
    IN  IF hits = {} THEN 0 ELSE CHOOSE i \in hits : \A j \in hits : i <= j

\* dates_str.split("to") (line 65)
RECURSIVE SplitTo(_)
SplitTo(s) ==
    LET i == FirstTo(s)
    IN  IF i = 0 THEN <<s>>
        ELSE <<SubSeq(s, 1, i - 1)>> \o SplitTo(SubSeq(s, i + 2, Len(s)))

\* datetime.fromisoformat(part.strip()) succeeds (lines 68-69)
IsIsoDate(part) == Len(Strip(part)) = 1 /\ Strip(part)[1] \in IsoDates

\* variant of Days: the last day is not counted
DaysExclusive(dt) ==
    LET parts == SplitTo(dt)
    IN  IF Len(parts) = 2 /\ IsIsoDate(parts[1]) /\ IsIsoDate(parts[2])
        THEN LET delta == DateOrdinal(Strip(parts[2])[1])
                          - DateOrdinal(Strip(parts[1])[1])
             IN  IF delta > 0 THEN delta ELSE DefaultDays
        ELSE DefaultDays

\* lines 63-75: the number of days, 5 unless both dates parse and delta > 0
Days(dt) ==
    LET parts == SplitTo(dt)
    IN  IF Len(parts) = 2 /\ IsIsoDate(parts[1]) /\ IsIsoDate(parts[2])
        THEN LET delta == DateOrdinal(Strip(parts[2])[1])
                          - DateOrdinal(Strip(parts[1])[1]) + 1
             IN  IF delta > 0 THEN delta ELSE DefaultDays
        ELSE DefaultDays

\* round(n / d) to the nearest integer, ties to even, for n >= 0 and d > 0
RoundDiv(n, d) ==
    LET q == n \div d
        r == n % d
    IN  IF 2 * r < d THEN q
        ELSE IF 2 * r > d THEN q + 1
        ELSE IF q % 2 = 0 THEN q ELSE q + 1

Max(a, b) == IF a >= b THEN a ELSE b

\* lines 77-81: amounts are kept in hundredths (two decimals)
BudgetInfo(b, dt) ==
    LET total   == NumberValue(b)
        days    == Days(dt)
        per_day == RoundDiv(total * 100, Max(days, 1))
    IN  [ total_budget |-> total,
          days         |-> days,
          per_day      |-> per_day,
          breakdown    |-> [ hotel_pct  |-> RoundDiv(per_day * 40, 100),
                             food_pct   |-> RoundDiv(per_day * 30, 100),
                             travel_pct |-> RoundDiv(per_day * 20, 100),
                             misc_pct   |-> RoundDiv(per_day * 10, 100) ] ]

NoBudgetInfo == [ total_budget |-> 0, days |-> 0, per_day |-> 0,
                  breakdown |-> [ hotel_pct |-> 0, food_pct |-> 0,
                                  travel_pct |-> 0, misc_pct |-> 0 ] ]

-----------------------------------------------------------------------------
(* The cache store (crew_runner.py 36-76) *)

EmptyMap == [k \in {} |-> 0]

NoFile == [valid |-> TRUE, map |-> EmptyMap]

Corrupt == [valid |-> FALSE, map |-> EmptyMap]

\* _load_cache: the mapping of the file; {} when the file is missing, when it
\* does not parse, or when reading it fails (lines 42-44)
LoadCache(file, fault) ==
    IF fault \/ ~file.valid THEN EmptyMap ELSE file.map

SaveFaults == {"none", "open", "write"}

\* _save_cache: open(CACHE_FILE, "w") truncates, json.dump writes.  A failure
\* of open leaves the file as it was; a failure while writing leaves a
\* truncated file, which no longer parses.  The exception is swallowed.
SaveCache(file, cache, fault) ==
    CASE fault = "none"  -> [valid |-> TRUE, map |-> cache]
      [] fault = "open"  -> file
      [] fault = "write" -> Corrupt

\* variant of PutEntry: a key that has an entry keeps it
PutEntryOnce(cache, k, t, v) ==
    IF k \in DOMAIN cache THEN cache
    ELSE [x \in (DOMAIN cache) \cup {k} |->
              IF x = k THEN [ts |-> t, value |-> v] ELSE cache[x]]

\* cache[key] = {"_ts": int(time.time()), "value": value} (line 75)
PutEntry(cache, k, t, v) ==
    [x \in (DOMAIN cache) \cup {k} |->
        IF x = k THEN [ts |-> t, value |-> v] ELSE cache[x]]

\* variant of Expired: an entry exactly CACHE_TTL seconds old counts as expired
ExpiredAtTtl(t, ts) == t - ts >= CACHE_TTL

\* the entry has expired (line 67)
Expired(t, ts) == t - ts > CACHE_TTL

\* variant of GetCached: the age of the entry is not looked at
GetCachedAnyAge(cache, k, t) ==
    IF k \notin DOMAIN cache THEN <<>> ELSE <<cache[k].value>>

\* variant of GetCached: a result with an empty field is not given back
GetCachedComplete(cache, k, t) ==
    IF k \notin DOMAIN cache THEN <<>>
    ELSE IF Expired(t, cache[k].ts) THEN <<>>
    ELSE IF \/ cache[k].value.trends = <<>> \/ cache[k].value.photos = <<>>
            \/ cache[k].value.itinerary = <<>> \/ cache[k].value.hotels = <<>>
            \/ cache[k].value.foods = <<>>
         THEN <<>>
    ELSE <<cache[k].value>>

\* _get_cached on a loaded mapping: <<>> is None, <<v>> is the value v
GetCached(cache, k, t) ==
    IF k \notin DOMAIN cache THEN <<>>
    ELSE IF Expired(t, cache[k].ts) THEN <<>>
    ELSE <<cache[k].value>>

\* json.loads(json.dumps(cached)) (line 113): the composite result is made of
\* JSON-native values (objects, arrays, strings, numbers), which the round trip
\* rebuilds member by member
JsonSeq(s) == [i \in 1..Len(s) |-> s[i]]

JsonCopy(v) ==
    [ destination |-> JsonSeq(v.destination),
      dates       |-> JsonSeq(v.dates),
      mood        |-> JsonSeq(v.mood),
      budget_info |-> [ total_budget |-> v.budget_info.total_budget,
                        days         |-> v.budget_info.days,
                        per_day      |-> v.budget_info.per_day,
                        breakdown    |-> v.budget_info.breakdown ],
      trends      |-> JsonSeq(v.trends),
      photos      |-> JsonSeq(v.photos),
      itinerary   |-> JsonSeq(v.itinerary),
      hotels      |-> JsonSeq(v.hotels),
      foods       |-> JsonSeq(v.foods) ]

-----------------------------------------------------------------------------
(* Sub-tasks and the merge of the fan-out stage *)

FanTasks == {"itinerary", "hotels", "foods", "gallery"}

Tasks == {"budget", "trends"} \cup FanTasks

\* what a sub-task's function can do once it ends: return a sequence (of its
\* own items, possibly none) or raise
TrendOutcomes ==
    { [kind |-> "ok", value |-> <<"spot">>], [kind |-> "error", value |-> <<>>] }

TaskOutcomes(t) ==
    { [kind |-> "ok", value |-> <<t>>], [kind |-> "error", value |-> <<>>] }

NoOutcome == [kind |-> "none", value |-> <<>>]

\* how long a sub-task can take, in seconds, besides never ending
TrendDurations == {5, 30}

FanDurations == {5, 30, 50}

\* variant of TrendsOf: the result of the trend task is not used
TrendsOfNothing(ok, res) == <<>>

\* lines 120-124: trends from the (ok, result) pair of _run_with_timeout
TrendsOf(ok, res) == IF ~ok THEN <<>> ELSE OrElse(res, <<>>)

\* lines 147-152: fut.result() of a finished future, any exception gives []
ResultOf(o) == IF o.kind = "error" THEN <<>> ELSE o.value

\* variant of LocalOf: the results of hotels and foods change places
LocalOfSwapped(name) ==
    CASE name = "itinerary" -> "itinerary"
      [] name = "hotels"    -> "foods"
      [] name = "foods"     -> "hotels"
      [] name = "gallery"   -> "gallery"

\* lines 153-160: the local a task's result is assigned to, by the task's name
LocalOf(name) ==
    CASE name = "itinerary" -> "itinerary"
      [] name = "hotels"    -> "hotels"
      [] name = "foods"     -> "foods"
      [] name = "gallery"   -> "gallery"

\* variant of Merge: a failed task resets the results merged so far
MergeResetting(f, name, res) ==
    IF res = <<>> THEN [t \in DOMAIN f |-> <<>>]
    ELSE [f EXCEPT ![LocalOf(name)] = res]

\* lines 153-160: one pass of the loop body after res is known
Merge(f, name, res) == [f EXCEPT ![LocalOf(name)] = OrElse(res, <<>>)]

NoFields == [t \in FanTasks |-> <<>>]

\* lines 163-173
Assemble(d, dt, m, bi, tr, f) ==
    [ destination |-> d, dates |-> dt, mood |-> m, budget_info |-> bi,
      trends |-> tr, photos |-> f["gallery"], itinerary |-> f["itinerary"],
      hotels |-> f["hotels"], foods |-> f["foods"] ]

NoResult == Assemble(<<>>, <<>>, <<>>, NoBudgetInfo, <<>>, NoFields)

\* what a call gives its caller
NoReturn == [kind |-> "none", value |-> NoResult, error |-> "none"]

Returned(v) == [kind |-> "value", value |-> v, error |-> "none"]

Raised(e) == [kind |-> "error", value |-> NoResult, error |-> e]

\* variant of PutRaises: a failed write of the file reaches the caller
PutRaisesOnSave(loadFault, saveFault) == saveFault # "none"

\* lines 176-179: whether a failure inside _set_cached reaches the caller
PutRaises(loadFault, saveFault) == FALSE

NoIo == [get |-> FALSE, putLoad |-> FALSE, putSave |-> "none"]

NoRwt == [outcome |-> "none", returnedAt |-> -1]

NoPrev == [req |-> [destination |-> <<>>, dates |-> <<>>, budget |-> <<>>, mood |-> <<>>],
           ret |-> NoReturn, path |-> "none", io |-> NoIo, end |-> -1]

-----------------------------------------------------------------------------
(* The requests of the model *)

Goa == <<"G", "o", "a">>

Fun == <<"F", "u", "n">>

Ninety == <<"9", "0">>

DecemberTrip == <<"2025-12-10", " ", "t", "o", " ", "2025-12-15">>

Requests ==
    { [destination |-> Goa, dates |-> DecemberTrip, budget |-> Ninety, mood |-> Fun],
      [destination |-> <<" ", "g", "O", "A", " ">>, dates |-> DecemberTrip \o <<" ">>,
       budget |-> Ninety \o <<" ">>, mood |-> <<"\t", "f", "U", "N">>],
      [destination |-> Goa, dates |-> <<>>, budget |-> Ninety, mood |-> <<>>],
      [destination |-> Goa, dates |-> DecemberTrip, budget |-> <<"a", "b", "c">>,
       mood |-> Fun],
      [destination |-> <<" ">>, dates |-> DecemberTrip, budget |-> Ninety, mood |-> Fun],
      [destination |-> Goa, dates |-> DecemberTrip, budget |-> <<>>, mood |-> Fun] }

\* seconds between the end of one call and the start of the next
Gaps == {0, CACHE_TTL, CACHE_TTL + 1}

\* the pair of requests and the keys, before any is derived
NoPair == [how |-> "none", a |-> NoPrev.req, b |-> NoPrev.req]

NoKeys == [direct |-> <<>>, lookup |-> <<>>]

\* the threads that use the cache store directly
Threads == {1, 2}

NoOp == [op |-> "none", key |-> <<>>, value |-> "none"]

\* a thread between two cache operations
IdleThread == [pc |-> "idle", op |-> NoOp, cache |-> EmptyMap, got |-> <<>>,
               before |-> NoFile, loadFault |-> FALSE, ops |-> 0]

\* BudgetAgent.run before it is called
NoArgs == [called |-> FALSE, budget |-> <<>>, dates |-> <<>>]

NoInfo == [kind |-> "none", info |-> NoBudgetInfo]

-----------------------------------------------------------------------------
(* run_travel_crew (crew_runner.py 96-181), one call after the other *)

\* the state of a fresh process that finds the cache file as file
InitWith(file) ==
    /\ cacheFile = file
    /\ now = 0
    /\ calls = 0
    /\ pc = "idle"
    /\ req = NoPrev.req
    /\ destination = <<>> /\ dates = <<>> /\ budget = <<>> /\ mood = <<>>
    /\ key = <<>>
    /\ budget_info = NoBudgetInfo
    /\ trends = <<>>
    /\ fields = NoFields
    /\ result = NoResult
    /\ ret = NoReturn
    /\ path = "none"
    /\ started = [t \in Tasks |-> 0]
    /\ trendStart = -1
    /\ rwt = NoRwt
    /\ fut = [t \in FanTasks |-> "none"]
    /\ fanStart = -1
    /\ deadlineAt = -1
    /\ produced = [t \in FanTasks |-> NoOutcome]
    /\ itinArg = <<>>
    /\ putCache = EmptyMap
    /\ io = NoIo
    /\ getAt = -1
    /\ prev = NoPrev
    /\ failures = 0
    /\ faults = 0
    /\ kin = NoPair
    /\ kout = NoKeys
    /\ th = [t \in Threads |-> IdleThread]
    /\ lock = 0
    /\ oplog = <<>>
    /\ bargs = NoArgs
    /\ binfo = NoInfo

\* a fresh process on a machine that has no cache file yet
Init == InitWith(NoFile)

\* the caller invokes run_travel_crew(r), gap seconds after the previous call
\* ended; lines 101-109
Call(r, gap) ==
    /\ pc \in {"idle", "done"}
    /\ calls' = calls + 1
    /\ now' = now + gap
    /\ prev' = IF pc = "idle" THEN NoPrev
               ELSE [req |-> req, ret |-> ret, path |-> path, io |-> io, end |-> now]
    /\ req' = r
    /\ destination' = Locals(r).destination
    /\ dates' = Locals(r).dates
    /\ budget' = Locals(r).budget
    /\ mood' = Locals(r).mood
    /\ IF Invalid(Locals(r))
       THEN /\ ret' = Raised("ValueError: destination and budget are required")
            /\ key' = <<>>
            /\ pc' = "done"
       ELSE /\ ret' = NoReturn
            /\ key' = RequestKey(r)
            /\ pc' = "get_cached"
    /\ budget_info' = NoBudgetInfo
    /\ trends' = <<>>
    /\ fields' = NoFields
    /\ result' = NoResult
    /\ path' = "none"
    /\ started' = [t \in Tasks |-> 0]
    /\ trendStart' = -1
    /\ rwt' = NoRwt
    /\ fut' = [t \in FanTasks |-> "none"]
    /\ fanStart' = -1
    /\ deadlineAt' = -1
    /\ produced' = [t \in FanTasks |-> NoOutcome]
    /\ itinArg' = <<>>
    /\ putCache' = EmptyMap
    /\ io' = NoIo
    /\ getAt' = -1
    /\ UNCHANGED << cacheFile, failures, faults, kin, kout,
                    th, lock, oplog, bargs, binfo >>

\* lines 110-113: the lookup; a hit returns a copy of the cached value
Lookup(fault) ==
    /\ pc = "get_cached"
    /\ getAt' = now
    /\ io' = [io EXCEPT !.get = fault]
    /\ LET cached == GetCached(LoadCache(cacheFile, fault), key, now)
       IN  IF cached # <<>>
           THEN /\ ret' = Returned(JsonCopy(cached[1]))
                /\ path' = "hit"
                /\ pc' = "done"
           ELSE /\ path' = "miss"
                /\ pc' = "budget"
                /\ UNCHANGED ret
    /\ faults' = faults + (IF fault THEN 1 ELSE 0)
    /\ UNCHANGED << cacheFile, now, calls, req, destination, dates, budget, mood, key,
                    budget_info, trends, fields, result, started, trendStart, rwt,
                    fut, fanStart, deadlineAt, produced, itinArg, putCache, prev, failures, kin, kout,
                    th, lock, oplog, bargs, binfo >>

\* line 116: _budget_agent.run(budget, dates), not guarded by any try
Budget ==
    /\ pc = "budget"
    /\ started' = [started EXCEPT !["budget"] = @ + 1]
    /\ IF IsNumber(budget)
       THEN /\ budget_info' = BudgetInfo(budget, dates)
            /\ pc' = "trend_submit"
            /\ UNCHANGED ret
       ELSE /\ ret' = Raised("ValueError: Budget must be a number")
            /\ pc' = "done"
            /\ UNCHANGED budget_info
    /\ UNCHANGED << cacheFile, now, calls, req, destination, dates, budget, mood, key,
                    trends, fields, result, path, trendStart, rwt, fut, fanStart,
                    deadlineAt, produced, itinArg, putCache, io, getAt, prev, failures, faults, kin, kout,
                    th, lock, oplog, bargs, binfo >>

\* _run_with_timeout(_trend_agent.run, destination, timeout=20), lines 85-86:
\* the trend task is submitted to a pool of one worker
TrendSubmit ==
    /\ pc = "trend_submit"
    /\ started' = [started EXCEPT !["trends"] = @ + 1]
    /\ trendStart' = now
    /\ pc' = "trend_wait"
    /\ UNCHANGED << cacheFile, now, calls, req, destination, dates, budget, mood, key,
                    budget_info, trends, fields, result, ret, path, rwt, fut,
                    fanStart, deadlineAt, produced, itinArg, putCache, io, getAt, prev, failures, faults, kin, kout,
                    th, lock, oplog, bargs, binfo >>

\* lines 88-89, 92-93: the task ends after d <= timeout seconds, returning or
\* raising; the pool has nothing left to wait for; then lines 120-124
TrendEnds(d, o) ==
    /\ pc = "trend_wait"
    /\ d <= TrendTimeout
    /\ now' = trendStart + d
    /\ rwt' = [outcome |-> o.kind, returnedAt |-> trendStart + d]
    /\ trends' = TrendsOf(o.kind = "ok", o.value)
    /\ pc' = "fanout_submit"
    /\ failures' = failures + (IF o.kind = "error" THEN 1 ELSE 0)
    /\ UNCHANGED << cacheFile, calls, req, destination, dates, budget, mood, key,
                    budget_info, fields, result, ret, path, started, trendStart, fut,
                    fanStart, deadlineAt, produced, itinArg, putCache, io, getAt, prev, faults, kin, kout,
                    th, lock, oplog, bargs, binfo >>

\* variant of TrendTimesOut: after a timeout the trend task is submitted again
TrendTimesOutRetrying ==
    /\ pc = "trend_wait"
    /\ now' = trendStart + TrendTimeout
    /\ rwt' = [outcome |-> "timeout", returnedAt |-> -1]
    /\ pc' = "trend_submit"
    /\ failures' = failures + 1
    /\ UNCHANGED << cacheFile, calls, req, destination, dates, budget, mood, key,
                    budget_info, trends, fields, result, ret, path, started,
                    trendStart, fut, fanStart, deadlineAt, produced, itinArg,
                    putCache, io, getAt, prev, faults, kin, kout,
                    th, lock, oplog, bargs, binfo >>

\* lines 90-91: fut.result(timeout) gives up after timeout seconds; the return
\* statement then leaves the with block, whose exit is shutdown(wait=True)
TrendTimesOut ==
    /\ pc = "trend_wait"
    /\ now' = trendStart + TrendTimeout
    /\ rwt' = [outcome |-> "timeout", returnedAt |-> -1]
    /\ pc' = "trend_exit"
    /\ failures' = failures + 1
    /\ UNCHANGED << cacheFile, calls, req, destination, dates, budget, mood, key,
                    budget_info, trends, fields, result, ret, path, started,
                    trendStart, fut, fanStart, deadlineAt, produced, itinArg,
                    putCache, io, getAt, prev, faults, kin, kout,
                    th, lock, oplog, bargs, binfo >>

\* line 85: the exit of the with block joins the worker; only when the task
\* has ended (after d > timeout seconds) does _run_with_timeout return
\* (False, TimeoutError); then lines 120-122
TrendWorkerEnds(d) ==
    /\ pc = "trend_exit"
    /\ d > TrendTimeout
    /\ now' = trendStart + d
    /\ rwt' = [rwt EXCEPT !.returnedAt = trendStart + d]
    /\ trends' = TrendsOf(FALSE, <<>>)
    /\ pc' = "fanout_submit"
    /\ UNCHANGED << cacheFile, calls, req, destination, dates, budget, mood, key,
                    budget_info, fields, result, ret, path, started, trendStart, fut,
                    fanStart, deadlineAt, produced, itinArg, putCache, io, getAt, prev, failures, faults, kin, kout,
                    th, lock, oplog, bargs, binfo >>

\* line 85: the trend task never ends; the exit of the with block waits for
\* its worker for ever and _run_with_timeout does not return
TrendHangs ==
    /\ pc = "trend_exit"
    /\ pc' = "trend_hung"
    /\ UNCHANGED << cacheFile, now, calls, req, destination, dates, budget, mood, key,
                    budget_info, trends, fields, result, ret, path, started,
                    trendStart, rwt, fut, fanStart, deadlineAt, produced, itinArg,
                    putCache, io, getAt, prev, failures, faults, kin, kout,
                    th, lock, oplog, bargs, binfo >>

\* lines 133-142: the four closures are submitted to a pool of four workers
FanoutSubmit ==
    /\ pc = "fanout_submit"
    /\ started' = [t \in Tasks |-> IF t \in FanTasks THEN started[t] + 1 ELSE started[t]]
    /\ fut' = [t \in FanTasks |-> "running"]
    /\ itinArg' = trends
    /\ fanStart' = now
    /\ pc' = "collect"
    /\ UNCHANGED << cacheFile, now, calls, req, destination, dates, budget, mood, key,
                    budget_info, trends, fields, result, ret, path, trendStart, rwt,
                    deadlineAt, produced, putCache, io, getAt, prev, failures, faults, kin, kout,
                    th, lock, oplog, bargs, binfo >>

Running == {t \in FanTasks : fut[t] = "running"}

\* lines 145-160: task t ends d seconds after the submission, before the outer
\* deadline; as_completed yields its future and the loop body merges its result
Collect(t, d, o) ==
    /\ pc = "collect"
    /\ fut[t] = "running"
    /\ d < OuterDeadline
    /\ fanStart + d >= now
    /\ now' = fanStart + d
    /\ fut' = [fut EXCEPT ![t] = "reported"]
    /\ produced' = [produced EXCEPT ![t] = o]
    /\ fields' = Merge(fields, t, ResultOf(o))
    /\ pc' = IF Running = {t} THEN "put_load" ELSE "collect"
    /\ failures' = failures + (IF o.kind = "error" THEN 1 ELSE 0)
    /\ UNCHANGED << cacheFile, calls, req, destination, dates, budget, mood, key,
                    budget_info, trends, result, ret, path, started, trendStart, rwt,
                    fanStart, deadlineAt, itinArg, putCache, io, getAt, prev, faults, kin, kout,
                    th, lock, oplog, bargs, binfo >>

\* line 145: 40 seconds after its first use as_completed raises TimeoutError
\* while futures are unfinished; nothing catches it, and it leaves the with
\* block, whose exit is shutdown(wait=True)
Deadline ==
    /\ pc = "collect"
    /\ Running # {}
    /\ now' = fanStart + OuterDeadline
    /\ deadlineAt' = fanStart + OuterDeadline
    /\ pc' = "pool_exit"
    /\ failures' = failures + Cardinality(Running)
    /\ UNCHANGED << cacheFile, calls, req, destination, dates, budget, mood, key,
                    budget_info, trends, fields, result, ret, path, started,
                    trendStart, rwt, fut, fanStart, produced, itinArg, putCache, io,
                    getAt, prev, faults, kin, kout,
                    th, lock, oplog, bargs, binfo >>

\* line 141: the exit of the with block joins the workers; only when the last
\* of them has ended (d > 40 seconds after the submission) does the
\* TimeoutError of line 145 go on to the caller
PoolExit(d) ==
    /\ pc = "pool_exit"
    /\ d > OuterDeadline
    /\ now' = fanStart + d
    /\ fut' = [t \in FanTasks |-> IF fut[t] = "running" THEN "late" ELSE fut[t]]
    /\ ret' = Raised("TimeoutError")
    /\ pc' = "done"
    /\ UNCHANGED << cacheFile, calls, req, destination, dates, budget, mood, key,
                    budget_info, trends, fields, result, path, started, trendStart,
                    rwt, fanStart, deadlineAt, produced, itinArg, putCache, io,
                    getAt, prev, failures, faults, kin, kout,
                    th, lock, oplog, bargs, binfo >>

\* line 141: an unfinished fan-out task never ends; the exit of the with block
\* waits for its worker for ever and run_travel_crew does not return
PoolHangs ==
    /\ pc = "pool_exit"
    /\ pc' = "pool_hung"
    /\ UNCHANGED << cacheFile, now, calls, req, destination, dates, budget, mood, key,
                    budget_info, trends, fields, result, ret, path, started,
                    trendStart, rwt, fut, fanStart, deadlineAt, produced, itinArg,
                    putCache, io, getAt, prev, failures, faults, kin, kout,
                    th, lock, oplog, bargs, binfo >>

\* lines 163-173, then _set_cached up to its line 75: the mapping is loaded and
\* the entry of key replaced
PutLoad(fault) ==
    /\ pc = "put_load"
    /\ result' = Assemble(destination, dates, mood, budget_info, trends, fields)
    /\ putCache' = PutEntry(LoadCache(cacheFile, fault), key, now, result')
    /\ io' = [io EXCEPT !.putLoad = fault]
    /\ pc' = "put_save"
    /\ faults' = faults + (IF fault THEN 1 ELSE 0)
    /\ UNCHANGED << cacheFile, now, calls, req, destination, dates, budget, mood, key,
                    budget_info, trends, fields, ret, path, started, trendStart, rwt,
                    fut, fanStart, deadlineAt, produced, itinArg, getAt, prev, failures, kin, kout,
                    th, lock, oplog, bargs, binfo >>

\* line 76 of _set_cached, then lines 176-181
PutSave(fault) ==
    /\ pc = "put_save"
    /\ cacheFile' = SaveCache(cacheFile, putCache, fault)
    /\ io' = [io EXCEPT !.putSave = fault]
    /\ ret' = IF PutRaises(io.putLoad, fault) THEN Raised("OSError")
              ELSE Returned(result)
    /\ pc' = "done"
    /\ faults' = faults + (IF fault # "none" THEN 1 ELSE 0)
    /\ UNCHANGED << now, calls, req, destination, dates, budget, mood, key,
                    budget_info, trends, fields, result, path, started, trendStart,
                    rwt, fut, fanStart, deadlineAt, produced, itinArg, putCache,
                    getAt, prev, failures, kin, kout,
                    th, lock, oplog, bargs, binfo >>

\* the steps of a call once it has been made, each within the limit G
Steps(G) ==
    \/ (\E fault \in BOOLEAN : Lookup(fault)) /\ G
    \/ Budget /\ G
    \/ TrendSubmit /\ G
    \/ (\E d \in TrendDurations, o \in TrendOutcomes : TrendEnds(d, o)) /\ G
    \/ TrendTimesOut /\ G
    \/ (\E d \in TrendDurations : TrendWorkerEnds(d)) /\ G
    \/ TrendHangs /\ G
    \/ FanoutSubmit /\ G
    \/ (\E t \in FanTasks, d \in FanDurations :
            \E o \in TaskOutcomes(t) : Collect(t, d, o)) /\ G
    \/ Deadline /\ G
    \/ (\E d \in FanDurations : PoolExit(d)) /\ G
    \/ PoolHangs /\ G
    \/ (\E fault \in BOOLEAN : PutLoad(fault)) /\ G
    \/ (\E fault \in SaveFaults : PutSave(fault)) /\ G

\* one call, on a machine that has no cache file yet
CallOnce(r) == pc = "idle" /\ Call(r, 0)

Next ==
    \/ \E r \in Requests : CallOnce(r)
    \/ Steps(TRUE)

Spec == Init /\ [][Next]_vars

\* calls one after the other, the first at time 0
CallAgain(r, gap) ==
    /\ calls < MaxCalls
    /\ pc = "idle" => gap = 0
    /\ Call(r, gap)

WithinBudget == failures' <= MaxFailures /\ faults' <= MaxFaults

NextTwice ==
    \/ \E r \in Requests, gap \in Gaps : CallAgain(r, gap)
    \/ Steps(WithinBudget)

SpecTwice == Init /\ [][NextTwice]_vars

-----------------------------------------------------------------------------
(* The key derivation on pairs of requests *)

KeyChars == {"A", "a", " ", "|"}

StringsUpTo(n) == UNION {[1..m -> KeyChars] : m \in 0..n}

KeyStrings == StringsUpTo(MaxKeyLen)

ShortStrings == StringsUpTo(1)

NotBlank(x) == \E i \in 1..Len(x) : x[i] \notin Spaces

\* the same letter in either case
CaseForms(c) == IF c \in {"a", "A"} THEN {"a", "A"} ELSE {c}

\* x with any of its letters in the other case
Recasings(x) == {y \in [1..Len(x) -> KeyChars] : \A i \in 1..Len(x) : y[i] \in CaseForms(x[i])}

Pads == {<<>>, <<" ">>}

\* x recased, with white space put before or after it
Variants(x) == {l \o y \o r : l \in Pads, r \in Pads, y \in Recasings(x)}

BaseRequest == [destination |-> <<"A">>, dates |-> <<"a">>, budget |-> <<"a">>,
                mood |-> <<"a">>]

\* two requests that differ in white space around, and in the case of,
\* destination and mood
PickRecased(d, m, d2, m2) ==
    /\ kin = NoPair
    /\ kin' = [how |-> "recase",
               a |-> [BaseRequest EXCEPT !.destination = d, !.mood = m],
               b |-> [BaseRequest EXCEPT !.destination = d2, !.mood = m2]]
    /\ UNCHANGED kout

\* two requests that differ in the text of dates, of budget, or of both
PickChanged(how, dt, b, dt2, b2) ==
    /\ kin = NoPair
    /\ how = "dates"  => (dt # dt2 /\ b = b2)
    /\ how = "budget" => (dt = dt2 /\ b # b2)
    /\ how = "both"   => (dt # dt2 /\ b # b2)
    /\ kin' = [how |-> how,
               a |-> [BaseRequest EXCEPT !.dates = dt, !.budget = b],
               b |-> [BaseRequest EXCEPT !.dates = dt2, !.budget = b2]]
    /\ UNCHANGED kout

\* _cache_key on the fields as they are, and the key run_travel_crew looks up
KeysOf(r) ==
    [direct |-> CacheKey(r.destination, r.dates, r.budget, r.mood),
     lookup |-> RequestKey(r)]

DeriveKeys ==
    /\ kin # NoPair
    /\ kout = NoKeys
    /\ kout' = [direct |-> <<KeysOf(kin.a).direct, KeysOf(kin.b).direct>>,
                lookup |-> <<KeysOf(kin.a).lookup, KeysOf(kin.b).lookup>>]
    /\ UNCHANGED kin

OrchestratorVars ==
    << cacheFile, now, calls, pc, req, destination, dates, budget, mood, key,
       budget_info, trends, fields, result, ret, path, started, trendStart,
       rwt, fut, fanStart, deadlineAt, produced, itinArg, putCache, io,
       getAt, prev, failures, faults >>

ValidBudgets == {b \in KeyStrings : NotBlank(b)}

NextKey ==
    \/ /\ kin = NoPair
       /\ \E d \in {x \in KeyStrings : NotBlank(x)}, m \in ShortStrings :
            \E d2 \in Variants(d), m2 \in Variants(m) : PickRecased(d, m, d2, m2)
       /\ UNCHANGED << OrchestratorVars, StoreVars, BudgetVars >>
    \/ /\ kin = NoPair
       /\ \E dt \in KeyStrings, dt2 \in KeyStrings, b \in {<<"a">>} :
            PickChanged("dates", dt, b, dt2, b)
       /\ UNCHANGED << OrchestratorVars, StoreVars, BudgetVars >>
    \/ /\ kin = NoPair
       /\ \E b \in ValidBudgets, b2 \in ValidBudgets, dt \in {<<"a">>} :
            PickChanged("budget", dt, b, dt, b2)
       /\ UNCHANGED << OrchestratorVars, StoreVars, BudgetVars >>
    \/ /\ kin = NoPair
       /\ \E dt \in ShortStrings, dt2 \in ShortStrings :
            \E b \in ValidBudgets, b2 \in ValidBudgets :
                PickChanged("both", dt, b, dt2, b2)
       /\ UNCHANGED << OrchestratorVars, StoreVars, BudgetVars >>
    \/ DeriveKeys /\ UNCHANGED << OrchestratorVars, StoreVars, BudgetVars >>

SpecKey == Init /\ [][NextKey]_vars

-----------------------------------------------------------------------------
(* The cache store used by two threads (crew_runner.py 36-76) *)

StoreKeys == {<<"a">>, <<"b">>}

StoreValues == {"v1", "v2"}

\* the calls a thread can make
StoreOps ==
    [op : {"put"}, key : StoreKeys, value : StoreValues]
        \cup [op : {"get"}, key : StoreKeys, value : {"none"}]

\* what an earlier run of the program can have left in the file
SeedFiles ==
    { [valid |-> TRUE, map |-> [k \in ks |-> [ts |-> 0, value |-> "v0"]]] :
          ks \in SUBSET StoreKeys }

\* everything but the store, its threads and the count of I/O faults
StoreFrame ==
    << now, calls, pc, req, destination, dates, budget, mood, key, budget_info,
       trends, fields, result, ret, path, started, trendStart, rwt, fut, fanStart,
       deadlineAt, produced, itinArg, putCache, io, getAt, prev, failures, kin,
       kout, bargs, binfo >>

\* the record of a completed operation
Completed(t, fault) ==
    [thread |-> t, op |-> th[t].op, before |-> th[t].before, got |-> th'[t].got,
     fault |-> fault]

\* thread t calls _get_cached or _set_cached; both begin with _load_cache, which
\* takes CACHE_LOCK (line 38)
OpBegins(t, o) ==
    /\ th[t].pc = "idle"
    /\ th[1].ops + th[2].ops < MaxOps
    /\ lock = 0
    /\ lock' = t
    /\ th' = [th EXCEPT ![t] = [IdleThread EXCEPT !.pc = "load", !.op = o,
                                    !.before = cacheFile, !.ops = th[t].ops + 1]]
    /\ UNCHANGED << cacheFile, oplog, faults >>

\* lines 39-44 of _load_cache: the file is read and the lock released; then
\* lines 63-70 of _get_cached, or line 75 of _set_cached
LoadRead(t, fault) ==
    /\ th[t].pc = "load"
    /\ lock = t
    /\ lock' = 0
    /\ faults' = faults + (IF fault THEN 1 ELSE 0)
    /\ LET cache == LoadCache(cacheFile, fault)
       IN  IF th[t].op.op = "get"
           THEN /\ th' = [th EXCEPT ![t].pc = "idle", ![t].cache = cache,
                                    ![t].loadFault = fault,
                                    ![t].got = GetCached(cache, th[t].op.key, now)]
                /\ oplog' = Append(oplog, Completed(t, fault))
           ELSE /\ th' = [th EXCEPT ![t].pc = "modified", ![t].loadFault = fault,
                                    ![t].cache = PutEntry(cache, th[t].op.key, now,
                                                          th[t].op.value)]
                /\ UNCHANGED oplog
    /\ UNCHANGED cacheFile

\* line 49 of _save_cache: CACHE_LOCK is taken again
SaveLock(t) ==
    /\ th[t].pc = "modified"
    /\ lock = 0
    /\ lock' = t
    /\ th' = [th EXCEPT ![t].pc = "save"]
    /\ UNCHANGED << cacheFile, oplog, faults >>

\* lines 50-53 of _save_cache: the file is written and the lock released
SaveWrite(t, fault) ==
    /\ th[t].pc = "save"
    /\ lock = t
    /\ lock' = 0
    /\ cacheFile' = SaveCache(cacheFile, th[t].cache, fault)
    /\ faults' = faults + (IF fault # "none" THEN 1 ELSE 0)
    /\ th' = [th EXCEPT ![t].pc = "idle"]
    /\ oplog' = Append(oplog, Completed(t, th[t].loadFault \/ fault # "none"))

NextStore ==
    \/ \E t \in Threads, o \in StoreOps : OpBegins(t, o) /\ UNCHANGED StoreFrame
    \/ \E t \in Threads, fault \in BOOLEAN :
           LoadRead(t, fault) /\ faults' <= MaxFaults /\ UNCHANGED StoreFrame
    \/ \E t \in Threads : SaveLock(t) /\ UNCHANGED StoreFrame
    \/ \E t \in Threads, fault \in SaveFaults :
           SaveWrite(t, fault) /\ faults' <= MaxFaults /\ UNCHANGED StoreFrame

SpecStore == (\E file \in SeedFiles : InitWith(file)) /\ [][NextStore]_vars

-----------------------------------------------------------------------------
(* BudgetAgent.run on its own (agents.py 56-81) *)

DateChars == IsoDates \cup {" ", "t", "o"}

DatesTexts == UNION {[1..n -> DateChars] : n \in 0..MaxDatesLen}

BudgetTexts == {Ninety, <<"a", "b", "c">>}

\* everything but the arguments and the result of BudgetAgent.run
BudgetFrame ==
    << cacheFile, now, calls, pc, req, destination, dates, budget, mood, key,
       budget_info, trends, fields, result, ret, path, started, trendStart, rwt,
       fut, fanStart, deadlineAt, produced, itinArg, putCache, io, getAt, prev,
       failures, faults, kin, kout, th, lock, oplog >>

\* BudgetAgent.run(b, dt): the ValueError of line 60, or the dictionary of line 81
BudgetRun(b, dt) ==
    /\ ~bargs.called
    /\ bargs' = [called |-> TRUE, budget |-> b, dates |-> dt]
    /\ binfo' = IF IsNumber(b) THEN [kind |-> "ok", info |-> BudgetInfo(b, dt)]
                ELSE [kind |-> "error", info |-> NoBudgetInfo]
    /\ UNCHANGED BudgetFrame

NextBudget ==
    /\ ~bargs.called
    /\ \E b \in BudgetTexts, dt \in DatesTexts : BudgetRun(b, dt)

SpecBudget == Init /\ [][NextBudget]_vars

-----------------------------------------------------------------------------
(* Properties *)

\* the field of a composite result that belongs to a fan-out task
FieldOfTask(v, t) ==
    CASE t = "itinerary" -> v.itinerary
      [] t = "hotels"    -> v.hotels
      [] t = "foods"     -> v.foods
      [] t = "gallery"   -> v.photos

NoneStarted == \A t \in Tasks : started[t] = 0

\* the current call repeats the request of the previous call, which returned a
\* result it had computed and stored without any cache I/O fault
RepeatsStoredCall ==
    /\ calls >= 2
    /\ req = prev.req
    /\ prev.path = "miss"
    /\ prev.ret.kind = "value"
    /\ prev.io = NoIo

\* C1: a call that repeats the previous call's request, looks the cache up
\* without I/O fault and no later than CACHE_TTL seconds after the first call
\* stored its result, is served from the cache: it has returned, no sub-task
\* was started, and the value is the composite result the first call stored.
C1_SecondCallServedFromCache ==
    (RepeatsStoredCall /\ getAt >= 0 /\ ~io.get /\ getAt - prev.end <= CACHE_TTL)
        => /\ pc = "done"
           /\ path = "hit"
           /\ NoneStarted
           /\ ret = Returned(prev.ret.value)

C1_Witness ==
    /\ RepeatsStoredCall
    /\ getAt - prev.end = CACHE_TTL
    /\ pc = "done" /\ path = "hit" /\ NoneStarted
    /\ ret = Returned(prev.ret.value)

AllReported == \A t \in FanTasks : fut[t] = "reported"

\* task t raised and the other three returned
OnlyFailed(t) ==
    /\ AllReported
    /\ produced[t].kind = "error"
    /\ \A u \in FanTasks \ {t} : produced[u].kind = "ok"

\* C2: when one fan-out task raises and the other three return, the call goes
\* on to its end and returns a composite result in which the failing task's
\* field is empty and each other field is what its own task produced.
C2_OneFailureKeepsOthers ==
    \A t \in FanTasks :
        OnlyFailed(t) =>
            /\ pc \in {"put_load", "put_save", "done"}
            /\ pc = "done" =>
                /\ ret.kind = "value"
                /\ FieldOfTask(ret.value, t) = <<>>
                /\ \A u \in FanTasks \ {t} :
                       FieldOfTask(ret.value, u) = produced[u].value

C2_Witness ==
    /\ pc = "done"
    /\ OnlyFailed("hotels")
    /\ ret.kind = "value"
    /\ ret.value.hotels = <<>>
    /\ ret.value.foods = <<"foods">>
    /\ ret.value.photos = <<"gallery">>
    /\ ret.value.itinerary = <<"itinerary">>

\* C3: when the outer deadline elapses before all four tasks have reported,
\* the call still returns a composite result: empty for the tasks that had not
\* reported, each task's own result for those that had.
C3_DeadlineGivesPartialResult ==
    (pc = "done" /\ deadlineAt >= 0) =>
        /\ ret.kind = "value"
        /\ \A t \in FanTasks :
               FieldOfTask(ret.value, t) =
                   IF fut[t] = "reported" THEN ResultOf(produced[t]) ELSE <<>>

\* C4: the orchestrator does not wait past the outer deadline: a call in which
\* the deadline elapsed ends at the deadline, whatever the unfinished workers do.
C4_NoWaitPastDeadline ==
    (pc = "done" /\ deadlineAt >= 0) => now = deadlineAt

\* C5: _run_with_timeout returns (False, TimeoutError) as soon as the timeout
\* elapses, without waiting for the worker that runs fn.
C5_RunnerReturnsAtTimeout ==
    (rwt.outcome = "timeout" /\ rwt.returnedAt >= 0)
        => rwt.returnedAt = trendStart + TrendTimeout

\* the budget text has a character that no number has
HasNonDigit(b) == \E i \in 1..Len(b) : b[i] \notin Digits

ValidRequest == Strip(req.destination) # <<>> /\ Strip(req.budget) # <<>>

HasEntry == cacheFile.valid /\ key \in DOMAIN cacheFile.map

\* what C7 says of one lookup, given that the store holds an entry
TtlRule ==
    /\ cacheFile' = cacheFile
    /\ IF now - cacheFile.map[key].ts > CACHE_TTL
       THEN path' = "miss"
       ELSE path' = "hit" /\ ret' = Returned(cacheFile.map[key].value)

\* C7 as stated: a lookup gives nothing when now - timestamp > TTL and the
\* stored value whenever the entry exists with now - timestamp <= TTL; it
\* leaves the persisted mapping as it was.
C7_LookupByTtl ==
    [][(pc = "get_cached" /\ pc' # "get_cached" /\ HasEntry) => TtlRule]_vars

\* C7 as amended: the same, for a lookup whose read of the store does not fail
\* (a failed read gives nothing, whatever the age of the entry).
C7_LookupByTtlWhenRead ==
    [][(pc = "get_cached" /\ pc' # "get_cached" /\ HasEntry /\ ~io'.get) => TtlRule]_vars

C7_Witness ==
    /\ pc = "budget"
    /\ HasEntry
    /\ ~io.get
    /\ getAt - cacheFile.map[key].ts = CACHE_TTL + 1
    /\ path = "miss"

\* C8: a request with an empty or blank destination, or an empty budget, fails
\* with the validation error before anything else happens: the cache is not
\* read, not written, and no sub-task is started.
C8_InvalidRequestNoEffect ==
    (calls >= 1 /\ (Strip(req.destination) = <<>> \/ Strip(req.budget) = <<>>))
        => /\ pc = "done"
           /\ ret = Raised("ValueError: destination and budget are required")
           /\ getAt = -1 /\ io = NoIo /\ path = "none"
           /\ cacheFile = NoFile /\ putCache = EmptyMap
           /\ NoneStarted

C8_Witness ==
    /\ pc = "done"
    /\ req.destination = <<" ">>
    /\ ret = Raised("ValueError: destination and budget are required")
    /\ NoneStarted

\* C9: a failure of the load or of the save inside the cache write is not
\* surfaced: the call returns the composite result it assembled.
C9_PutFailureSwallowed ==
    (pc = "done" /\ path = "miss" /\ (io.putLoad \/ io.putSave # "none"))
        => ret = Returned(Assemble(destination, dates, mood, budget_info, trends, fields))

C9_Witness ==
    /\ pc = "done"
    /\ io.putSave = "write"
    /\ cacheFile = Corrupt
    /\ ret.kind = "value"
    /\ ret.value.hotels = <<"hotels">>

Derived == kout # NoKeys

SameKeys == kout.direct[1] = kout.direct[2] /\ kout.lookup[1] = kout.lookup[2]

NoBar(x) == \A i \in 1..Len(x) : x[i] # "|"

\* C10 as stated: two requests that differ only in white space around and in
\* the case of destination and mood have the same key (from _cache_key and in
\* the lookup of run_travel_crew); two that differ in the text of dates or of
\* budget have different keys.
C10_KeyInvariantAndDistinct ==
    Derived =>
        /\ kin.how = "recase" => SameKeys
        /\ kin.how \in {"dates", "budget", "both"} =>
               /\ kout.direct[1] # kout.direct[2]
               /\ kout.lookup[1] # kout.lookup[2]

\* C10 as amended: _cache_key is the same for two such requests, and so is the
\* key of the lookup when both moods are given or both are left empty; the
\* keys differ when the dates differ after trimming, or the budgets differ (as
\* handed to _cache_key; after trimming, in the lookup), provided that no "|"
\* is in them when both dates and budget differ.
C10_KeyUpToTrimAndCase ==
    Derived =>
        /\ kin.how = "recase" =>
               /\ kout.direct[1] = kout.direct[2]
               /\ (kin.a.mood = <<>>) = (kin.b.mood = <<>>)
                      => kout.lookup[1] = kout.lookup[2]
        /\ kin.how = "dates" =>
               (Strip(kin.a.dates) # Strip(kin.b.dates)
                    => kout.direct[1] # kout.direct[2] /\ kout.lookup[1] # kout.lookup[2])
        /\ kin.how = "budget" =>
               /\ kout.direct[1] # kout.direct[2]
               /\ Strip(kin.a.budget) # Strip(kin.b.budget)
                      => kout.lookup[1] # kout.lookup[2]
        /\ ( /\ kin.how = "both"
             /\ NoBar(kin.a.dates) /\ NoBar(kin.b.dates)
             /\ NoBar(kin.a.budget) /\ NoBar(kin.b.budget) ) =>
               /\ kout.direct[1] # kout.direct[2]
               /\ (Strip(kin.a.dates) # Strip(kin.b.dates)
                      \/ Strip(kin.a.budget) # Strip(kin.b.budget))
                      => kout.lookup[1] # kout.lookup[2]

C10_Witness ==
    /\ Derived
    /\ kin.how = "recase"
    /\ kin.a.destination = <<"A", "a">>
    /\ kin.b.destination = <<" ", "a", "A", " ">>
    /\ kin.a.mood = <<"A">>
    /\ kin.b.mood = <<"a", " ">>
    /\ SameKeys
    /\ kout.lookup[1] = <<"a", "a", "|", "a", "|", "a", "|", "a">>

\* one thread has called _set_cached twice, one call after the other, with the
\* same key and differing values, and no other thread has used the store
TwoPutsInSequence ==
    /\ Len(oplog) = 2
    /\ oplog[1].thread = oplog[2].thread
    /\ \A u \in Threads \ {oplog[1].thread} : th[u].ops = 0
    /\ oplog[1].op.op = "put" /\ oplog[2].op.op = "put"
    /\ oplog[1].op.key = oplog[2].op.key
    /\ oplog[1].op.value # oplog[2].op.value

\* the store holds one entry for the key of the two puts, with the later
\* value, and every other key has the entry it had before the first put
LaterValueOnly ==
    LET k   == oplog[2].op.key
        old == oplog[1].before.map
    IN  /\ cacheFile.valid
        /\ DOMAIN cacheFile.map = (DOMAIN old) \cup {k}
        /\ cacheFile.map[k].value = oplog[2].op.value
        /\ \A x \in (DOMAIN old) \ {k} : cacheFile.map[x] = old[x]

\* C11 as stated: two calls of _set_cached in sequence with the same key and
\* differing values leave the store with one entry for the key, holding the
\* later value, and with every other key's entry unchanged.
C11_LastWriteWins == TwoPutsInSequence => LaterValueOnly

\* C11 as amended: the same, when no load and no write of the mapping fails in
\* either call (a put whose write fails is dropped).
C11_LastWriteWinsWhenWritten ==
    (TwoPutsInSequence /\ ~oplog[1].fault /\ ~oplog[2].fault) => LaterValueOnly

C11_Witness ==
    /\ TwoPutsInSequence
    /\ ~oplog[1].fault /\ ~oplog[2].fault
    /\ oplog[1].op = [op |-> "put", key |-> <<"a">>, value |-> "v1"]
    /\ oplog[2].op = [op |-> "put", key |-> <<"a">>, value |-> "v2"]
    /\ DOMAIN oplog[1].before.map = StoreKeys
    /\ cacheFile.map[<<"a">>].value = "v2"
    /\ cacheFile.map[<<"b">>].value = "v0"

\* the ways to read dt as a start date, "to" and an end date, with nothing
\* but white space around them
DateForms(dt) ==
    { f \in (1..Len(dt)) \X (1..Len(dt)) \X (1..Len(dt)) :
        /\ f[1] < f[2] /\ f[2] + 1 < f[3]
        /\ dt[f[1]] \in IsoDates /\ dt[f[3]] \in IsoDates
        /\ dt[f[2]] = "t" /\ dt[f[2] + 1] = "o"
        /\ \A i \in 1..Len(dt) : i \notin {f[1], f[2], f[2] + 1, f[3]} => dt[i] = " " }

\* C12: BudgetAgent.run yields days >= 1: the inclusive number of days from
\* start to end when dates is "start to end" with two ISO dates and end not
\* before start, and 5 when dates is empty, unparseable, or end is before start.
C12_DaysInclusiveOrDefault ==
    binfo.kind = "ok" =>
        /\ binfo.info.days >= 1
        /\ \A f \in DateForms(bargs.dates) :
               LET first == DateOrdinal(bargs.dates[f[1]])
                   last  == DateOrdinal(bargs.dates[f[3]])
               IN  binfo.info.days = IF last >= first THEN last - first + 1 ELSE 5
        /\ DateForms(bargs.dates) = {} => binfo.info.days = 5

C12_Witness ==
    /\ binfo.kind = "ok"
    /\ bargs.dates = DecemberTrip
    /\ binfo.info.days = 6
    /\ binfo.info.per_day = 1500

\* C13: a fan-out task that runs longer than its per-task timeout of 8 seconds
\* counts as timed out: when it reports, before the outer deadline, its field
\* is left empty.
C13_PerTaskTimeoutApplies ==
    [][\A t \in FanTasks :
          (fut[t] = "running" /\ fut'[t] = "reported"
              /\ now' - fanStart > PerTaskTimeout) => fields'[t] = <<>>]_vars

\* the fan-out stage has submitted its tasks, the itinerary task among them
ItinerarySubmitted == started["itinerary"] >= 1

\* C14: when the itinerary task is submitted the trend task has finished, the
\* runner having reported success, error or timeout no later than the
\* submission, and the itinerary task is given the trends the orchestrator
\* settled on: the trend result on success, the empty sequence on failure.
C14_TrendBeforeItinerary ==
    ItinerarySubmitted =>
        /\ path = "miss"
        /\ rwt.outcome \in {"ok", "error", "timeout"}
        /\ rwt.returnedAt >= trendStart /\ rwt.returnedAt <= fanStart
        /\ itinArg = trends
        /\ itinArg = IF rwt.outcome = "ok" THEN <<"spot">> ELSE <<>>

C14_Witness ==
    /\ ItinerarySubmitted
    /\ rwt.outcome = "ok"
    /\ itinArg = <<"spot">>
    /\ rwt.returnedAt = fanStart
    /\ pc = "done" /\ ret.kind = "value"
    /\ ret.value.trends = <<"spot">>

\* C16: the merge is keyed by task identity: whatever the order in which the
\* tasks report, each local holds the result of the task of its own name
\* once that task has reported and is empty before, and the returned
\* composite result has each task's result in its own field.
C16_MergeByTaskIdentity ==
    /\ \A t \in FanTasks :
           fields[t] = IF fut[t] = "reported" THEN ResultOf(produced[t]) ELSE <<>>
    /\ (pc = "done" /\ ret.kind = "value") =>
           \A t \in FanTasks : FieldOfTask(ret.value, t) = ResultOf(produced[t])

C16_Witness ==
    /\ pc = "collect"
    /\ fut = [t \in FanTasks |-> IF t \in {"gallery", "foods"} THEN "reported"
                                 ELSE "running"]
    /\ produced["foods"].kind = "error"
    /\ fields = [t \in FanTasks |-> IF t = "gallery" THEN <<"gallery">> ELSE <<>>]

\* C18: no sub-task is retried: in one call each of the six sub-tasks is
\* started at most once, and exactly once when the call, having missed the
\* cache, has reached the stage of the sub-task; a call served from the cache
\* starts none.
C18_NoRetry ==
    /\ \A t \in Tasks : started[t] <= 1
    /\ (path = "miss" /\ pc # "budget") => started["budget"] = 1
    /\ trendStart >= 0 => started["trends"] = 1
    /\ fanStart >= 0 => \A t \in FanTasks : started[t] = 1
    /\ path # "miss" => NoneStarted

C18_Witness ==
    /\ pc = "done"
    /\ rwt.outcome = "timeout"
    /\ deadlineAt >= 0
    /\ \E t \in FanTasks : produced[t].kind = "error"
    /\ \A t \in Tasks : started[t] = 1

\* two threads have each completed one _set_cached, on different keys, without
\* I/O fault, and nothing else has used the store
TwoPutsOnTwoKeys ==
    /\ Len(oplog) = 2
    /\ oplog[1].thread # oplog[2].thread
    /\ oplog[1].op.op = "put" /\ oplog[2].op.op = "put"
    /\ oplog[1].op.key # oplog[2].op.key
    /\ ~oplog[1].fault /\ ~oplog[2].fault
    /\ \A t \in Threads : th[t].ops = 1

\* C15: the read-modify-write of a put is atomic with respect to the other
\* threads (no read or write of theirs falls between its load and its
\* write-back), so two puts that two threads make on different keys, however
\* their steps fall in time, both leave their entries in the store.
C15_ConcurrentPutsBothKept ==
    TwoPutsOnTwoKeys =>
        \A i \in 1..2 :
            /\ cacheFile.valid
            /\ oplog[i].op.key \in DOMAIN cacheFile.map
            /\ cacheFile.map[oplog[i].op.key].value = oplog[i].op.value

\* C19: a put neither removes nor alters the entry of another key, whether
\* its load and its write succeed or fail: when a put whose thread alone has
\* used the store since the put began ends, every other key that had an entry
\* has the same entry still.
C19_PutKeepsOtherKeys ==
    [][\A t \in Threads :
          (th[t].pc = "save" /\ th'[t].pc = "idle" /\ cacheFile = th[t].before) =>
              \A x \in (DOMAIN cacheFile.map) \ {th[t].op.key} :
                  /\ x \in DOMAIN cacheFile'.map
                  /\ cacheFile'.map[x] = cacheFile.map[x]]_vars

\* the runner has reported the failure of the trend task, or given it up
TrendFailed == rwt.outcome \in {"error", "timeout"}

\* C17: when the trend task raises or exceeds its 20 seconds the call goes on:
\* it is not left waiting on the trend task, trends is empty, the four fan-out
\* tasks are submitted, the itinerary task with empty trends, and the call
\* returns a composite result with empty trends, which is what it caches.
C17_TrendFailureDegrades ==
    TrendFailed =>
        /\ pc # "trend_hung"
        /\ trends = <<>>
        /\ pc \notin {"trend_exit", "trend_hung", "fanout_submit"} =>
               /\ \A t \in FanTasks : started[t] = 1
               /\ itinArg = <<>>
        /\ pc = "done" =>
               /\ ret.kind = "value"
               /\ ret.value.trends = <<>>
               /\ (~io.putLoad /\ io.putSave = "none") =>
                      /\ key \in DOMAIN cacheFile.map
                      /\ cacheFile.map[key].value.trends = <<>>

\* a composite result with a field left empty
Degraded(v) ==
    \/ v.trends = <<>>
    \/ \E t \in FanTasks : FieldOfTask(v, t) = <<>>

\* the previous call had the same request, missed the cache, met no cache I/O
\* fault, and returned a result in which a failed sub-task left its field empty
RepeatsDegradedCall ==
    /\ calls >= 2
    /\ req = prev.req
    /\ prev.path = "miss"
    /\ prev.io = NoIo
    /\ prev.ret.kind = "value"
    /\ Degraded(prev.ret.value)

\* C20: a degraded result is cached like a complete one: the result of a call
\* in which sub-tasks failed, their fields empty, is in the cache, and a call
\* that repeats the request and looks the cache up, without I/O fault, within
\* CACHE_TTL seconds is served that same result and starts no sub-task.
C20_DegradedResultCached ==
    (RepeatsDegradedCall /\ getAt >= 0 /\ ~io.get /\ getAt - prev.end <= CACHE_TTL)
        => /\ key \in DOMAIN cacheFile.map
           /\ cacheFile.map[key].value = prev.ret.value
           /\ pc = "done"
           /\ path = "hit"
           /\ NoneStarted
           /\ ret = Returned(prev.ret.value)

C20_Witness ==
    /\ RepeatsDegradedCall
    /\ prev.ret.value.hotels = <<>>
    /\ prev.ret.value.foods = <<"foods">>
    /\ getAt - prev.end = CACHE_TTL
    /\ pc = "done" /\ path = "hit" /\ NoneStarted
    /\ ret.value.hotels = <<>>
    /\ ret.value.foods = <<"foods">>

=============================================================================
